---- MODULE Spec2Model ----
(***************************************************************************)
(* Light-zai: the streaming response parser (httpStream), the tool bridge  *)
(* (executeTool, promptUser, dispatchCommand) and the tool-call loop       *)
(* (sendMessage, sendMessageSync, sendMessageStream).                      *)
(*                                                                         *)
(* Text is a sequence of one-character strings.  An optional value is a    *)
(* sequence of length 0 (JavaScript null / undefined) or 1.                *)
(***************************************************************************)
EXTENDS Integers, Sequences, FiniteSets, TLC

VARIABLES
  body,                 \* the response body the Transport delivers (text)
  pos,                  \* number of characters of body delivered so far
  split,                \* whether a chunk has ended inside a data: prefix
                        \* or inside a multi-byte character
  stream,               \* the locals of httpStream's response callback
  resolved,             \* what the httpStream promise resolved with
  conversationHistory,  \* the message log
  CFG,                  \* CFG.tools and CFG.stream && IS_TTY
  variant,              \* which file's sendMessageStream runs
  rl,                   \* _rl, the readline interface of the REPL, or null
  turn,                 \* the frame of the sendMessage call in progress
  calls,                \* the frames of the executeTool calls in progress
  observed              \* what a test double around the turn records

vars == <<body, pos, split, stream, resolved, conversationHistory, CFG, variant,
          rl, turn, calls, observed>>

streamVars == <<body, pos, split, stream, resolved>>

turnVars == <<conversationHistory, CFG, variant, rl, turn, calls, observed>>

None == <<>>

Some(v) == <<v>>

(***************************************************************************)
(* Bounds.                                                                 *)
(***************************************************************************)
MaxLines == 3

MaxFrames == 4

MaxChunk == 12

MaxRounds == 3

(***************************************************************************)
(* String helpers of the JavaScript runtime.                               *)
(***************************************************************************)
NL == "\n"

IsSpace(ch) == ch \in {" ", "\r", "\t", NL}

RECURSIVE TrimStart(_)
TrimStart(s) ==
  IF s # <<>> /\ IsSpace(Head(s)) THEN TrimStart(Tail(s)) ELSE s

RECURSIVE TrimEnd(_)
TrimEnd(s) ==
  IF s # <<>> /\ IsSpace(s[Len(s)])
  THEN TrimEnd(SubSeq(s, 1, Len(s) - 1))
  ELSE s

\* String.prototype.trim
Trim(s) == TrimEnd(TrimStart(s))

\* String.prototype.startsWith
StartsWith(s, p) == Len(s) >= Len(p) /\ SubSeq(s, 1, Len(p)) = p

\* String.prototype.slice(n)
Slice(s, n) == SubSeq(s, n + 1, Len(s))

\* String.prototype.split('\n'): always at least one segment
RECURSIVE Split(_)
Split(s) ==
  IF \A i \in 1..Len(s) : s[i] # NL
  THEN <<s>>
  ELSE LET i == CHOOSE j \in 1..Len(s) :
                  s[j] = NL /\ \A h \in 1..(j - 1) : s[h] # NL
       IN  <<SubSeq(s, 1, i - 1)>> \o Split(SubSeq(s, i + 1, Len(s)))

\* Array.prototype.pop: the array without its last element
Pop(a) == SubSeq(a, 1, Len(a) - 1)

Last(a) == a[Len(a)]

DataPrefix == <<"d", "a", "t", "a", ":">>

DoneSentinel == <<"[", "D", "O", "N", "E", "]">>

(***************************************************************************)
(* The JSON texts the model can put on the wire.  A frame is written       *)
(* {<letter>}; JSONParse succeeds on exactly these texts, and any other    *)
(* payload (a truncated frame, trailing garbage) is a SyntaxError.         *)
(***************************************************************************)
NoDelta == [reasoning_content |-> "", content |-> "", tool_calls |-> None]

Fragment(index, id, name, arguments) ==
  [index |-> index, id |-> id, type |-> "",
   function |-> [name |-> name, arguments |-> arguments]]

Choice(finish_reason, delta) ==
  Some([finish_reason |-> finish_reason, delta |-> delta])

ContentFrame(text) ==
  [web_search |-> None, usage |-> None,
   choices |-> Choice(None, Some([NoDelta EXCEPT !.content = text]))]

ToolFrame(fragments) ==
  [web_search |-> None, usage |-> None,
   choices |-> Choice(None, Some([NoDelta EXCEPT !.tool_calls = Some(fragments)]))]

Frames ==
  LET ReasoningFrame(text) ==
        [web_search |-> None, usage |-> None,
         choices |-> Choice(None, Some([NoDelta EXCEPT !.reasoning_content = text]))]
  IN
  [a |-> ContentFrame("A"),
   b |-> ContentFrame("B"),
   r |-> ReasoningFrame("R"),
   \* usage and web_search without choices
   u |-> [web_search |-> Some("W1"), usage |-> Some("U1"), choices |-> None],
   \* finish_reason, usage and web_search, no delta
   z |-> [web_search |-> Some("W2"), usage |-> Some("U2"),
          choices |-> Choice(Some("stop"), None)],
   \* a second finish_reason and usage
   t |-> [web_search |-> None, usage |-> Some("U3"),
          choices |-> Choice(Some("length"), None)],
   \* finish_reason is the empty string
   e |-> [web_search |-> None, usage |-> None,
          choices |-> Choice(Some(""), None)],
   \* index 0: id and name, then two argument fragments
   i |-> ToolFrame(<<Fragment("0", "c0", "f", "")>>),
   x |-> ToolFrame(<<Fragment("0", "", "", "x")>>),
   y |-> ToolFrame(<<Fragment("0", "", "", "y")>>),
   \* index 1: id, name and first arguments in one fragment; then more
   j |-> ToolFrame(<<Fragment("1", "c1", "g", "p")>>),
   q |-> ToolFrame(<<Fragment("1", "", "", "q")>>),
   \* index 0 again with a new id
   k |-> ToolFrame(<<Fragment("0", "c2", "", "")>>),
   \* a fragment without index: the key is the string "undefined"
   n |-> ToolFrame(<<Fragment("undefined", "c3", "h", "v")>>)]

FrameText(letter) == <<"{", letter, "}">>

IsJSON(payload) ==
  Len(payload) = 3 /\ payload[1] = "{" /\ payload[3] = "}"
    /\ payload[2] \in DOMAIN Frames

RECURSIVE Concat(_)
Concat(chars) ==
  IF chars = <<>> THEN "" ELSE Head(chars) \o Concat(Tail(chars))

\* a content frame whose string is made of such characters
IsGlyphJSON(payload) ==
  LET \* characters outside ASCII that a content string may hold: e with acute
      \* accent, and the replacement character a UTF-8 decoder puts in the place
      \* of a malformed byte sequence
      Glyphs == {"U+00E9", "U+FFFD"}
  IN
  /\ Len(payload) >= 3
  /\ payload[1] = "{"
  /\ payload[Len(payload)] = "}"
  /\ \A j \in 2..(Len(payload) - 1) : payload[j] \in Glyphs

\* JSON.parse: the parsed frame, or None when it throws
JSONParse(payload) ==
  IF IsJSON(payload) THEN Some(Frames[payload[2]])
  ELSE IF IsGlyphJSON(payload)
       THEN Some(ContentFrame(Concat(SubSeq(payload, 2, Len(payload) - 1))))
       ELSE None

(***************************************************************************)
(* httpStream: the 'data' handler.                                         *)
(***************************************************************************)

Put(map, key, v) ==
  [j \in DOMAIN map \cup {key} |-> IF j = key THEN v ELSE map[j]]

InitSlotKeeping(slots, tc) ==
  IF tc.id # ""
  THEN IF tc.index \in DOMAIN slots
       THEN [slots EXCEPT ![tc.index].id = tc.id]
       ELSE Put(slots, tc.index,
                [id |-> tc.id,
                 type |-> IF tc.type # "" THEN tc.type ELSE "function",
                 function |-> [name |-> "", arguments |-> ""]])
  ELSE slots

\* if (tc.id) toolCalls[idx] = { id, type: tc.type || 'function', function: { name: '', arguments: '' } }
InitSlot(slots, tc) ==
  IF tc.id # ""
  THEN Put(slots, tc.index,
           [id |-> tc.id,
            type |-> IF tc.type # "" THEN tc.type ELSE "function",
            function |-> [name |-> "", arguments |-> ""]])
  ELSE slots

\* if (tc.function?.name && toolCalls[idx]) toolCalls[idx].function.name = tc.function.name
SetName(slots, tc) ==
  IF tc.function.name # "" /\ tc.index \in DOMAIN slots
  THEN [slots EXCEPT ![tc.index].function.name = tc.function.name]
  ELSE slots

AppendArgumentsOverwrite(slots, tc) ==
  IF tc.function.arguments # "" /\ tc.index \in DOMAIN slots
  THEN [slots EXCEPT ![tc.index].function.arguments = tc.function.arguments]
  ELSE slots

\* if (tc.function?.arguments && toolCalls[idx]) toolCalls[idx].function.arguments += tc.function.arguments
AppendArguments(slots, tc) ==
  IF tc.function.arguments # "" /\ tc.index \in DOMAIN slots
  THEN [slots EXCEPT ![tc.index].function.arguments =
                        @ \o tc.function.arguments]
  ELSE slots

RECURSIVE FoldFragments(_, _)
FoldFragments(slots, tcs) ==
  IF tcs = <<>>
  THEN slots
  ELSE FoldFragments(
         AppendArguments(SetName(InitSlot(slots, Head(tcs)), Head(tcs)),
                         Head(tcs)),
         Tail(tcs))

FoldDeltaTwice(s, delta) ==
  [s EXCEPT
     !.fullReasoning = @ \o delta.reasoning_content,
     !.fullContent = @ \o delta.content,
     !.onReasoning = IF delta.reasoning_content # ""
                     THEN Append(@, delta.reasoning_content) ELSE @,
     !.onToken = IF delta.content # ""
                 THEN Append(Append(@, delta.content), delta.content) ELSE @,
     !.toolCalls = IF delta.tool_calls # None
                   THEN FoldFragments(@, delta.tool_calls[1]) ELSE @]

\* the part of the loop body after choice.delta was found
FoldDelta(s, delta) ==
  [s EXCEPT
     !.fullReasoning = @ \o delta.reasoning_content,
     !.fullContent = @ \o delta.content,
     !.onReasoning = IF delta.reasoning_content # ""
                     THEN Append(@, delta.reasoning_content) ELSE @,
     !.onToken = IF delta.content # ""
                 THEN Append(@, delta.content) ELSE @,
     !.toolCalls = IF delta.tool_calls # None
                   THEN FoldFragments(@, delta.tool_calls[1]) ELSE @]

FoldFrameChoicesFirst(s, parsed) ==
  IF parsed.choices = None
  THEN s
  ELSE LET choice == parsed.choices[1]
           s2 == [s EXCEPT
                    !.webSearchResults =
                       IF parsed.web_search # None
                       THEN parsed.web_search ELSE @,
                    !.usage = IF parsed.usage # None THEN parsed.usage ELSE @,
                    !.finishReason =
                       IF choice.finish_reason \notin {None, Some("")}
                       THEN choice.finish_reason ELSE @]
       IN  IF choice.delta = None
           THEN s2
           ELSE FoldDelta(s2, choice.delta[1])

\* the body of the try block, after JSON.parse
FoldFrame(s, parsed) ==
  LET s1 == [s EXCEPT
               !.webSearchResults =
                  IF parsed.web_search # None THEN parsed.web_search ELSE @,
               !.usage = IF parsed.usage # None THEN parsed.usage ELSE @]
  IN  IF parsed.choices = None
      THEN s1
      ELSE LET choice == parsed.choices[1]
               s2 == [s1 EXCEPT
                        !.finishReason =
                           IF choice.finish_reason \notin {None, Some("")}
                           THEN choice.finish_reason ELSE @]
           IN  IF choice.delta = None
               THEN s2
               ELSE FoldDelta(s2, choice.delta[1])

\* one iteration of `for (const line of lines)`; ok is FALSE when
\* JSON.parse threw
ProcessLine(s, line) ==
  LET trimmed == Trim(line)
  IN  IF trimmed = <<>> \/ ~StartsWith(trimmed, DataPrefix)
      THEN [ok |-> TRUE, s |-> s]
      ELSE LET payload == Trim(Slice(trimmed, 5))
           IN  IF payload = DoneSentinel
               THEN [ok |-> TRUE, s |-> s]
               ELSE LET parsed == JSONParse(payload)
                    IN  IF parsed = None
                        THEN [ok |-> FALSE, s |-> s]
                        ELSE [ok |-> TRUE, s |-> FoldFrame(s, parsed[1])]

RECURSIVE ForEachLineTryOutside(_, _)
ForEachLineTryOutside(s, lines) ==
  IF lines = <<>>
  THEN s
  ELSE LET r == ProcessLine(s, Head(lines))
       IN  IF r.ok THEN ForEachLineTryOutside(r.s, Tail(lines)) ELSE r.s

\* for (const line of lines) { ... try { ... } catch (_) {} }
RECURSIVE ForEachLine(_, _)
ForEachLine(s, lines) ==
  IF lines = <<>>
  THEN s
  ELSE ForEachLine(ProcessLine(s, Head(lines)).s, Tail(lines))

CarryOverNothing(lines) == <<>>

\* buffer = lines.pop()
CarryOver(lines) == Last(lines)

\* res.on('data', (chunk) => { ... })
OnDataHandler(s, chunk) ==
  LET lines == Split(s.buffer \o chunk)
  IN  ForEachLine([s EXCEPT !.buffer = CarryOver(lines)], Pop(lines))

\* the locals declared before res.on('data')
StreamStart ==
  LET EmptySlots == [key \in {} |-> None]
  IN
  [buffer |-> <<>>, fullContent |-> "", fullReasoning |-> "",
   toolCalls |-> EmptySlots, finishReason |-> None, usage |-> None,
   webSearchResults |-> None,
   onToken |-> <<>>, onReasoning |-> <<>>,
   onSearchResult |-> <<>>, onUsage |-> <<>>, onDone |-> <<>>]

(***************************************************************************)
(* httpStream: the 'end' handler.                                          *)
(***************************************************************************)
\* Object.values order: integer keys ascending, then string keys
KeyOrder == <<"0", "1", "undefined">>

RECURSIVE ValuesFrom(_, _)
ValuesFrom(map, keys) ==
  IF keys = <<>>
  THEN <<>>
  ELSE (IF Head(keys) \in DOMAIN map THEN <<map[Head(keys)]>> ELSE <<>>)
         \o ValuesFrom(map, Tail(keys))

\* Object.values(toolCalls)
ObjectValues(map) == ValuesFrom(map, KeyOrder)

FinalToolCallsEmptyList(tcArray) == Some(tcArray)

\* tcArray.length > 0 ? tcArray : null
FinalToolCalls(tcArray) == IF Len(tcArray) > 0 THEN Some(tcArray) ELSE None

ResultFlushing(s) ==
  LET t == ForEachLine(s, <<s.buffer>>)
  IN  [content |-> t.fullContent, reasoning |-> t.fullReasoning,
       toolCalls |-> FinalToolCalls(ObjectValues(t.toolCalls)),
       finishReason |-> t.finishReason, usage |-> t.usage,
       webSearch |-> t.webSearchResults]

\* the value passed to resolve()
Result(s) ==
  [content |-> s.fullContent, reasoning |-> s.fullReasoning,
   toolCalls |-> FinalToolCalls(ObjectValues(s.toolCalls)),
   finishReason |-> s.finishReason, usage |-> s.usage,
   webSearch |-> s.webSearchResults]

\* the result of a body delivered as one single chunk
SingleChunkResult(text) == Result(OnDataHandler(StreamStart, text))

(***************************************************************************)
(* Response bodies.                                                        *)
(***************************************************************************)
DataLine(letter) == DataPrefix \o FrameText(letter)

RECURSIVE Join(_)
Join(lines) ==
  IF lines = <<>> THEN <<>> ELSE Head(lines) \o <<NL>> \o Join(Tail(lines))

SeqsUpTo(S, n) == UNION { [1..m -> S] : m \in 0..n }

(***************************************************************************)
(* httpStream as a state machine: the Transport delivers the body in       *)
(* chunks of 1..MaxChunk characters, then ends the response.               *)
(***************************************************************************)
Idle == [pc |-> "idle"]

NoTurnYet ==
  /\ conversationHistory = <<>>
  /\ CFG = [tools |-> FALSE, stream |-> TRUE]
  /\ variant = "index.js"
  /\ rl = None
  /\ turn = Idle
  /\ calls = <<>>
  /\ observed = <<>>

InitStream ==
  LET \* every line ends with a newline, except possibly the last
      DecoderBodies ==
        LET       \* lines that exercise the decoder
            DecoderLines ==
              { DataPrefix \o <<" ">> \o FrameText("a"),       \* data: {a}
                DataPrefix \o <<"{", "a">>,                     \* data:{a   (not JSON)
                DataPrefix \o DoneSentinel,                     \* data:[DONE]
                <<>>,                                           \* blank line
                FrameText("a"),                                 \* no data: prefix
                <<" ">> \o DataLine("r") \o <<"\r">>,           \* indented, CRLF
                DataLine("j"),
                DataLine("z") }
        IN
        { Join(ls) : ls \in SeqsUpTo(DecoderLines, MaxLines) }
          \cup { Pop(Join(ls)) : ls \in SeqsUpTo(DecoderLines, MaxLines) \ {<<>>} }
  IN
  LET FragmentBodies ==
        LET \* lines that exercise the aggregator's tool-call slots
            FragmentLines == { DataLine(l) : l \in {"i", "x", "y", "j", "k"} }
        IN
        { Join(ls) : ls \in SeqsUpTo(FragmentLines, MaxFrames) }
  IN
  /\ body \in DecoderBodies \cup FragmentBodies
  /\ pos = 0
  /\ split = FALSE
  /\ stream = StreamStart
  /\ resolved = None
  /\ NoTurnYet

\* res.on('data'): the next n characters arrive as one chunk
OnData(n) ==
  LET \* the held-back text is a proper, non-empty prefix of `data:`
      InsidePrefix(buf) ==
        /\ buf # <<>>
        /\ Len(buf) < Len(DataPrefix)
        /\ buf = SubSeq(DataPrefix, 1, Len(buf))
  IN
  /\ resolved = None
  /\ pos + n <= Len(body)
  /\ stream' = OnDataHandler(stream, SubSeq(body, pos + 1, pos + n))
  /\ pos' = pos + n
  /\ split' = (split \/ (pos' < Len(body) /\ InsidePrefix(stream'.buffer)))
  /\ UNCHANGED <<body, resolved>>
  /\ UNCHANGED turnVars

\* the callbacks invoked by the 'end' handler
EndCallbacks(s) ==
  LET \* the argument of onDone
      DoneArgument ==
        [content |-> s.fullContent, reasoning |-> s.fullReasoning,
         toolCalls |-> FinalToolCalls(ObjectValues(s.toolCalls)),
         finishReason |-> s.finishReason, usage |-> s.usage]
  IN
  [s EXCEPT
     !.onSearchResult = IF s.webSearchResults # None
                        THEN Append(@, s.webSearchResults[1]) ELSE @,
     !.onUsage = IF s.usage # None THEN Append(@, s.usage[1]) ELSE @,
     !.onDone = Append(@, DoneArgument)]

\* res.on('end')
OnEnd ==
  /\ resolved = None
  /\ pos = Len(body)
  /\ stream' = EndCallbacks(stream)
  /\ resolved' = Some(Result(stream))
  /\ UNCHANGED <<body, pos, split>>
  /\ UNCHANGED turnVars

NextStream ==
  \/ \E n \in 1..MaxChunk : OnData(n)
  \/ OnEnd

SpecStream == InitStream /\ [][NextStream]_vars

(***************************************************************************)
(* C1.  Frame reassembly: however the body was split into chunks, the      *)
(* result httpStream resolves with is the result of the same body          *)
(* delivered as one single chunk.                                          *)
(***************************************************************************)
FrameReassembly ==
  resolved # None => resolved[1] = SingleChunkResult(body)

\* a body with a chunk boundary inside a data: prefix, whose result has
\* content, a tool call and usage
FrameReassemblyWitness ==
  /\ resolved # None
  /\ split
  /\ resolved[1].content # ""
  /\ resolved[1].toolCalls # None
  /\ resolved[1].usage # None

(***************************************************************************)
(* What a body says, read line by line without the aggregator: used to     *)
(* state the claims about httpStream.                                      *)
(***************************************************************************)
CompleteLines(text) == Pop(Split(text))

IsDataLine(line) == StartsWith(Trim(line), DataPrefix)

PayloadOf(line) == Trim(Slice(Trim(line), 5))

\* a data: line whose payload is not JSON (and not the sentinel)
IsMalformed(line) ==
  /\ IsDataLine(line)
  /\ PayloadOf(line) # DoneSentinel
  /\ ~IsJSON(PayloadOf(line))

IsFrameLine(line) == IsDataLine(line) /\ IsJSON(PayloadOf(line))

RECURSIVE FragmentsAt(_, _)
\* the tool-call fragments for one index, in frame-arrival order
FragmentsAt(lines, key) ==
  IF lines = <<>>
  THEN <<>>
  ELSE LET f == IF IsFrameLine(Head(lines))
                THEN Frames[PayloadOf(Head(lines))[2]]
                ELSE [choices |-> None]
           tcs == IF f.choices # None /\ f.choices[1].delta # None
                     /\ f.choices[1].delta[1].tool_calls # None
                  THEN f.choices[1].delta[1].tool_calls[1]
                  ELSE <<>>
       IN  SelectSeq(tcs, LAMBDA tc : tc.index = key)
             \o FragmentsAt(Tail(lines), key)

RECURSIVE ConcatArguments(_)
ConcatArguments(frags) ==
  IF frags = <<>>
  THEN ""
  ELSE Head(frags).function.arguments \o ConcatArguments(Tail(frags))

RECURSIVE CarriedName(_)
CarriedName(frags) ==
  IF frags = <<>>
  THEN ""
  ELSE IF Last(frags).function.name # ""
       THEN Last(frags).function.name
       ELSE CarriedName(Pop(frags))

Range(f) == { f[j] : j \in DOMAIN f }

(***************************************************************************)
(* C7.  Tool-call argument concatenation: for an index whose id arrives    *)
(* once, in its first fragment, the finalized tool call has that id, the   *)
(* name the fragments carry, and the concatenation, in arrival order, of   *)
(* all argument fragments of that index.                                   *)
(***************************************************************************)
ArgumentConcatenation ==
  resolved # None =>
    \A key \in {"0", "1"} :
      LET frags == FragmentsAt(CompleteLines(body), key)
      IN  (/\ frags # <<>>
           /\ frags[1].id # ""
           /\ \A m \in 2..Len(frags) : frags[m].id = "")
          => /\ resolved[1].toolCalls # None
             /\ \E tc \in Range(resolved[1].toolCalls[1]) :
                  /\ tc.id = frags[1].id
                  /\ tc.function.name = CarriedName(frags)
                  /\ tc.function.arguments = ConcatArguments(frags)

\* index 0 got "x" then "y" with a fragment of index 1 in between
ArgumentConcatenationWitness ==
  /\ resolved # None
  /\ resolved[1].toolCalls # None
  /\ Len(resolved[1].toolCalls[1]) = 2
  /\ resolved[1].toolCalls[1][1] =
       [id |-> "c0", type |-> "function",
        function |-> [name |-> "f", arguments |-> "xy"]]
  /\ body = Join(<<DataLine("i"), DataLine("x"), DataLine("j"), DataLine("y")>>)

(***************************************************************************)
(* C8.  Null versus empty tool calls: the toolCalls of the result is null  *)
(* or a non-empty list, never an empty list; it is null exactly when no    *)
(* slot was created, so for every body without tool-call fragments.        *)
(***************************************************************************)
NullVersusEmpty ==
  resolved # None =>
    /\ resolved[1].toolCalls # Some(<<>>)
    /\ (resolved[1].toolCalls = None) <=> (DOMAIN stream.toolCalls = {})
    /\ (\A key \in Range(KeyOrder) :
          FragmentsAt(CompleteLines(body), key) = <<>>)
         => resolved[1].toolCalls = None

\* a stream with frames but no tool-call frame
NullVersusEmptyWitness ==
  /\ resolved # None
  /\ resolved[1].content # ""
  /\ resolved[1].usage # None
  /\ resolved[1].toolCalls = None

(***************************************************************************)
(* C9.  Malformed-frame tolerance: a data: line whose payload is not JSON  *)
(* changes nothing in the final result, and the frames after it are        *)
(* still processed.                                                        *)
(***************************************************************************)
MalformedFrameTolerance ==
  LET RECURSIVE SelectLines(_, _)
      SelectLines(lines, keepMalformed) ==
        IF lines = <<>>
        THEN <<>>
        ELSE (IF IsMalformed(Head(lines)) = keepMalformed \/ ~IsMalformed(Head(lines))
              THEN <<Head(lines)>> ELSE <<>>)
               \o SelectLines(Tail(lines), keepMalformed)
      \* the body with every complete malformed data: line taken out
      WithoutMalformed(text) ==
        Join(SelectLines(CompleteLines(text), FALSE)) \o Last(Split(text))
  IN
  resolved # None => resolved[1] = SingleChunkResult(WithoutMalformed(body))

\* a malformed data: line between two frames that both reached the result
MalformedFrameToleranceWitness ==
  /\ resolved # None
  /\ LET lines == CompleteLines(body)
     IN  /\ Len(lines) = 3
         /\ IsFrameLine(lines[1])
         /\ IsMalformed(lines[2])
         /\ IsFrameLine(lines[3])
  /\ resolved[1].content = "A"
  /\ resolved[1].toolCalls # None

(***************************************************************************)
(* C21.  Trailing partial content is discarded: a segment left in the      *)
(* buffer when the stream ends, even a complete data: frame without its    *)
(* newline, is not parsed and adds nothing to the result.                  *)
(***************************************************************************)
TrailingDiscarded ==
  resolved # None
    => resolved[1] = SingleChunkResult(Join(CompleteLines(body)))

\* the stream ended after a frame with content and an unterminated, valid
\* frame carrying a tool call
TrailingDiscardedWitness ==
  /\ resolved # None
  /\ Len(CompleteLines(body)) = 1
  /\ IsFrameLine(Last(Split(body)))
  /\ Last(Split(body)) = DataLine("j")
  /\ resolved[1].content = "A"
  /\ resolved[1].toolCalls = None

RECURSIVE LastIdAt(_)
\* the position of the last fragment that carries an id, or 0
LastIdAt(frags) ==
  IF frags = <<>> THEN 0
  ELSE IF Last(frags).id # "" THEN Len(frags) ELSE LastIdAt(Pop(frags))

(***************************************************************************)
(* C22.  Tool-call slot initialisation and reset: a fragment with an id    *)
(* sets the slot of its index to that id with empty name and arguments,    *)
(* dropping what was accumulated; fragments for an index without a slot    *)
(* are dropped; so a slot exists exactly for the indexes that received an  *)
(* id, and holds the last id and the name and concatenated arguments of    *)
(* the fragments from the last id-bearing fragment onward.                 *)
(***************************************************************************)
SlotInitialisationAndReset ==
  resolved # None =>
    \A key \in Range(KeyOrder) :
      LET frags == FragmentsAt(CompleteLines(body), key)
          p     == LastIdAt(frags)
          since == SubSeq(frags, p, Len(frags))
      IN  IF p = 0
          THEN key \notin DOMAIN stream.toolCalls
          ELSE /\ key \in DOMAIN stream.toolCalls
               /\ stream.toolCalls[key] =
                    [id |-> frags[p].id, type |-> "function",
                     function |-> [name |-> CarriedName(since),
                                   arguments |-> ConcatArguments(since)]]

\* arguments before any id (dropped), an id with a name, a second id for
\* the same index (reset), then arguments
SlotInitialisationAndResetWitness ==
  /\ resolved # None
  /\ body = Join(<<DataLine("x"), DataLine("i"), DataLine("k"), DataLine("y")>>)
  /\ resolved[1].toolCalls =
       Some(<<[id |-> "c2", type |-> "function",
               function |-> [name |-> "", arguments |-> "y"]]>>)

RECURSIVE Deltas(_, _)
\* the non-empty values of one delta field, in line order
Deltas(lines, field) ==
  LET \* the delta of the frame a line carries, if it carries one
      DeltaOf(line) ==
        IF ~IsFrameLine(line) THEN None
        ELSE LET f == Frames[PayloadOf(line)[2]]
             IN  IF f.choices = None THEN None ELSE f.choices[1].delta
  IN
  IF lines = <<>> THEN <<>>
  ELSE Deltas(Pop(lines), field)
         \o (IF DeltaOf(Last(lines)) # None
                  /\ DeltaOf(Last(lines))[1][field] # ""
              THEN <<DeltaOf(Last(lines))[1][field]>> ELSE <<>>)

\* the complete lines among the characters received so far
ReceivedLines == CompleteLines(SubSeq(body, 1, pos))

(***************************************************************************)
(* C24.  In-order token delivery: at every point of a stream the content   *)
(* callback has received exactly the non-empty content deltas of the       *)
(* frames decoded so far, once each and in frame order, and their          *)
(* concatenation is the accumulated content; likewise for reasoning; at    *)
(* the end the concatenations are the content and reasoning of the result. *)
(***************************************************************************)
InOrderTokenDelivery ==
  /\ stream.onToken = Deltas(ReceivedLines, "content")
  /\ stream.onReasoning = Deltas(ReceivedLines, "reasoning_content")
  /\ Concat(stream.onToken) = stream.fullContent
  /\ Concat(stream.onReasoning) = stream.fullReasoning
  /\ resolved # None
       => /\ resolved[1].content = Concat(stream.onToken)
          /\ resolved[1].reasoning = Concat(stream.onReasoning)

\* content, reasoning and content again were delivered, in some order,
\* before the stream ended
InOrderTokenDeliveryWitness ==
  /\ resolved = None
  /\ stream.onToken = <<"A", "A">>
  /\ stream.onReasoning = <<"R">>
  /\ stream.fullContent = "AA"

(***************************************************************************)
(* C25.  Completion callback: a stream that ends normally calls onDone     *)
(* exactly once, after the token callbacks, with a result equal in every   *)
(* AggregatedResult field to the value the promise resolves with; before   *)
(* the end it has not been called.                                         *)
(***************************************************************************)
CompletionCallback ==
  LET AggregatedFields ==
        {"content", "reasoning", "toolCalls", "finishReason", "usage", "webSearch"}
      \* a field of an object; an absent field reads as null
      FieldOf(object, field) ==
        IF field \in DOMAIN object THEN object[field] ELSE None
  IN
  /\ resolved = None => stream.onDone = <<>>
  /\ resolved # None
       => /\ Len(stream.onDone) = 1
          /\ \A field \in AggregatedFields :
               FieldOf(stream.onDone[1], field) = resolved[1][field]

(***************************************************************************)
(* httpStream over bodies whose frames carry metadata, finish reasons,     *)
(* the terminal sentinel, and tool-call fragments with and without index.  *)
(***************************************************************************)
InitFrames ==
  LET AggregatorBodies ==
        LET \* lines that exercise the aggregator's metadata and the key order of the
            \* tool-call slots
            AggregatorLines ==
              { DataLine(l) : l \in {"i", "j", "n", "u", "z", "t", "e"} }
                \cup { DataPrefix \o DoneSentinel }
        IN
        { Join(ls) : ls \in SeqsUpTo(AggregatorLines, MaxLines) }
  IN
  /\ body \in AggregatorBodies
  /\ pos = 0
  /\ split = FALSE
  /\ stream = StreamStart
  /\ resolved = None
  /\ NoTurnYet

SpecFrames == InitFrames /\ [][NextStream]_vars

(***************************************************************************)
(* C23.  Finalized tool-call list: at stream end the list holds exactly    *)
(* one entry for each distinct index that received an id-bearing           *)
(* fragment, in ascending index order whatever the arrival order; a        *)
(* fragment that carries no index adds no entry.                           *)
(***************************************************************************)
FinalizedToolCallList ==
  LET \* the numeric keys of the accumulator, ascending
      IndexOrder == <<"0", "1">>
  IN
  resolved # None =>
    LET indexed == SelectSeq(IndexOrder,
                     LAMBDA key :
                       LastIdAt(FragmentsAt(CompleteLines(body), key)) > 0)
        list    == IF resolved[1].toolCalls = None
                   THEN <<>> ELSE resolved[1].toolCalls[1]
    IN  /\ Len(list) = Len(indexed)
        /\ \A p \in 1..Len(list) :
             /\ indexed[p] \in DOMAIN stream.toolCalls
             /\ list[p] = stream.toolCalls[indexed[p]]

\* the frame a line carries, if it carries one
FrameOf(line) ==
  IF IsFrameLine(line) THEN Some(Frames[PayloadOf(line)[2]]) ELSE None

RECURSIVE LastFinishReason(_, _)
\* the last choices[0].finish_reason among the frames that is not null
\* and, unless emptyCounts, not the empty string
LastFinishReason(lines, emptyCounts) ==
  IF lines = <<>> THEN None
  ELSE LET f == FrameOf(Last(lines))
       IN  IF f # None /\ f[1].choices # None
                /\ f[1].choices[1].finish_reason # None
                /\ (emptyCounts \/ f[1].choices[1].finish_reason # Some(""))
           THEN f[1].choices[1].finish_reason
           ELSE LastFinishReason(Pop(lines), emptyCounts)

\* what the aggregation of the received frames leaves untouched when the
\* frames without choices[0] are taken out, and what the result reports
MetadataElsewhere ==
  LET \* the lines whose frame has a choices[0], and the lines that are no frame
      WithChoices(lines) ==
        SelectSeq(lines,
                  LAMBDA l : FrameOf(l) = None \/ FrameOf(l)[1].choices # None)
      RECURSIVE LastField(_, _)
      \* the last non-null value of a top-level field among the frames
      LastField(lines, field) ==
        IF lines = <<>> THEN None
        ELSE IF FrameOf(Last(lines)) # None /\ FrameOf(Last(lines))[1][field] # None
             THEN FrameOf(Last(lines))[1][field]
             ELSE LastField(Pop(lines), field)
  IN
  LET sans == ForEachLine(StreamStart, WithChoices(ReceivedLines))
  IN  /\ stream.usage = LastField(ReceivedLines, "usage")
      /\ stream.webSearchResults = LastField(ReceivedLines, "web_search")
      /\ stream.fullContent = sans.fullContent
      /\ stream.fullReasoning = sans.fullReasoning
      /\ stream.toolCalls = sans.toolCalls
      /\ stream.finishReason = sans.finishReason
      /\ resolved # None
           => /\ resolved[1].usage = stream.usage
              /\ resolved[1].webSearch = stream.webSearchResults
              /\ resolved[1].finishReason = stream.finishReason

(***************************************************************************)
(* C26.  Metadata is last-write-wins and independent of choices: usage,    *)
(* webSearch and finishReason are those of the last received frame that    *)
(* carried a usage, a web_search and a choices[0].finish_reason that is    *)
(* neither null nor the empty string; a frame without choices[0] records   *)
(* its usage and web_search and changes nothing else; frames after a       *)
(* finish_reason and lines after [DONE] are still folded.                  *)
(***************************************************************************)
MetadataLastWriteWins ==
  /\ MetadataElsewhere
  /\ stream.finishReason = LastFinishReason(ReceivedLines, FALSE)

\* usage and finish_reason, an empty finish_reason, then a frame without
\* choices whose usage and web_search replace the earlier ones
MetadataLastWriteWinsWitness ==
  /\ resolved # None
  /\ body = Join(<<DataLine("z"), DataLine("e"), DataLine("u")>>)
  /\ resolved[1].usage = Some("U1")
  /\ resolved[1].webSearch = Some("W1")
  /\ resolved[1].finishReason = Some("stop")

\* C26 as stated: the final finishReason is that of the last frame that
\* carried a non-null choices[0].finish_reason, the empty string included
MetadataLastNonNull ==
  /\ MetadataElsewhere
  /\ stream.finishReason = LastFinishReason(ReceivedLines, TRUE)

(***************************************************************************)
(* Messages and tool calls.                                                *)
(***************************************************************************)
Message(role, content, tool_calls, tool_call_id) ==
  [role |-> role, content |-> content, tool_calls |-> tool_calls,
   tool_call_id |-> tool_call_id]

SystemMessage == Message("system", Some("system prompt"), None, None)

UserMessage(text) == Message("user", Some(text), None, None)

ToolCall(id, name, arguments) ==
  [id |-> id, type |-> "function",
   function |-> [name |-> name, arguments |-> arguments]]

\* try { toolArgs = JSON.parse(tc.function.arguments); } catch(_) { toolArgs = {}; }
ParseArguments(arguments) ==
  LET \* the arguments strings a model can send, and what JSON.parse makes of
      \* them; any other string makes JSON.parse throw
      ArgumentObjects ==
        [path |-> [kind |-> "object", command |-> None],
         ls |-> [kind |-> "object", command |-> Some("ls")],
         read |-> [kind |-> "object", command |-> Some("/read u")],
         nope |-> [kind |-> "object", command |-> Some("/nope")],
         null |-> [kind |-> "null", command |-> None]]
  IN
  IF arguments \in DOMAIN ArgumentObjects
  THEN ArgumentObjects[arguments]
  ELSE [kind |-> "object", command |-> None]

ReadCall == ToolCall("call_1", "read_file", "path")

BashCall == ToolCall("call_2", "execute_command", "ls")

ApprovalRead == ToolCall("call_3", "run_with_approval", "read")

NullCall == ToolCall("call_5", "execute_command", "null")

ToolCalls ==
  LET ApprovalBash == ToolCall("call_4", "run_with_approval", "ls")
      UnknownCall == ToolCall("call_6", "no_such_tool", "{bad")
      ApprovalNope == ToolCall("call_7", "run_with_approval", "nope")
      ApprovalBad == ToolCall("call_8", "run_with_approval", "{bad")
  IN
  { ReadCall, BashCall, ApprovalRead, ApprovalBash, NullCall, UnknownCall,
    ApprovalNope, ApprovalBad }

(***************************************************************************)
(* promptUser, dispatchCommand, executeTool.                               *)
(***************************************************************************)
\* what the user may type at the approval prompt, and
\* answer.trim().toLowerCase() of it ("U+315B" is the Hangul letter yo)
Typed ==
  [y |-> "y", Y |-> "y", yes |-> "yes", padded_Yes |-> "yes",
   yo |-> "U+315B", n |-> "n", empty |-> "", ok |-> "ok"]

promptUserApproves(channel, typed) ==
  IF channel # None THEN Typed[typed] ELSE "y"

\* promptUser: the answer the promise resolves with
promptUser(channel, typed) ==
  IF channel # None THEN Typed[typed] ELSE "n"

Denied == [success |-> FALSE, denied |-> TRUE]

Failure == [success |-> FALSE, error |-> "message"]

Success == [success |-> TRUE]

\* JSON.stringify(toolResult)
JSONStringify(result) ==
  IF "denied" \in DOMAIN result THEN "{\"success\":false,\"denied\":true}"
  ELSE IF result.success THEN "{\"success\":true}"
  ELSE "{\"success\":false,\"error\":\"message\"}"

\* the frame of an executeTool call at its first await, or settled
Frame(at, tc, args, pc) ==
  [at |-> at, id |-> tc.id, toolName |-> tc.function.name, args |-> args,
   pc |-> pc, answer |-> None, dispatched |-> FALSE, result |-> None]

\* executeTool up to its first await
executeTool(at, tc, args) ==
  CASE tc.function.name = "read_file" ->
         \* fs calls inside try/catch
         Frame(at, tc, args, "handler")
    [] tc.function.name = "execute_command" ->
         \* args.command is read outside any try block
         IF args.kind = "null"
         THEN Frame(at, tc, args, "thrown")
         ELSE Frame(at, tc, args, "handler")
    [] tc.function.name = "run_with_approval" ->
         \* args.description is read before the prompt
         IF args.kind = "null"
         THEN Frame(at, tc, args, "thrown")
         ELSE Frame(at, tc, args, "prompt")
    [] OTHER ->
         [Frame(at, tc, args, "returned") EXCEPT !.result = Some(Failure)]

\* dispatchCommand up to its first await
dispatchCommand(f) ==
  LET g == [f EXCEPT !.dispatched = TRUE]
  IN  IF f.args.command = None
      \* cmdStr.startsWith on undefined throws, caught by the caller
      THEN [g EXCEPT !.pc = "returned", !.result = Some(Failure)]
      ELSE IF f.args.command[1] \in {"ls", "/read u"}
           THEN [g EXCEPT !.pc = "command"]
           \* default: unsupported command
           ELSE [g EXCEPT !.pc = "returned", !.result = Some(Failure)]

\* case 'run_with_approval', after `await promptUser(...)`
AfterPrompt(f, answer) ==
  LET \* answer0 === 'y' || answer0 === 'yes' || answer0 === (yo)
      IsApproval(answer0) == answer0 \in {"y", "yes", "U+315B"}
  IN
  LET g == [f EXCEPT !.answer = Some(answer)]
  IN  IF IsApproval(answer)
      THEN dispatchCommand(g)
      ELSE [g EXCEPT !.pc = "returned", !.result = Some(Denied)]

ReplaceAt(seq, j, v) == [seq EXCEPT ![j] = v]

\* the user answers _rl.question, or promptUser resolves 'n' by itself
PromptAnswered(j, typed) ==
  /\ j \in DOMAIN calls
  /\ typed \in DOMAIN Typed
  /\ calls[j].pc = "prompt"
  /\ calls' = ReplaceAt(calls, j, AfterPrompt(calls[j], promptUser(rl, typed)))
  /\ observed' =
       [observed EXCEPT
          !.commands = IF calls'[j].dispatched
                       THEN Append(@, calls[j].args.command) ELSE @]
  /\ UNCHANGED <<conversationHistory, CFG, variant, rl, turn>>
  /\ UNCHANGED streamVars

\* a built-in handler (fs, exec) finishes; failures are caught
HandlerSettled(j, ok) ==
  /\ j \in DOMAIN calls
  /\ calls[j].pc = "handler"
  /\ calls[j].args.kind = "null" => ~ok
  /\ (calls[j].toolName = "execute_command" /\ calls[j].args.command = None)
       => ~ok
  /\ calls' = ReplaceAt(calls, j,
       [calls[j] EXCEPT !.pc = "returned",
                        !.result = Some(IF ok THEN Success ELSE Failure)])
  /\ UNCHANGED <<conversationHistory, CFG, variant, rl, turn, observed>>
  /\ UNCHANGED streamVars

\* the awaited part of dispatchCommand finishes: bash, or case 'read'
\* which pushes the page into the conversation history
CommandSettled(j, ok) ==
  /\ j \in DOMAIN calls
  /\ calls[j].pc = "command"
  /\ calls' = ReplaceAt(calls, j,
       [calls[j] EXCEPT !.pc = "returned",
                        !.result = Some(IF ok THEN Success ELSE Failure)])
  /\ conversationHistory' =
       IF ok /\ calls[j].args.command = Some("/read u")
       THEN Append(conversationHistory, UserMessage("[URL u]"))
       ELSE conversationHistory
  /\ UNCHANGED <<CFG, variant, rl, turn, observed>>
  /\ UNCHANGED streamVars

(***************************************************************************)
(* The tool bridge called on its own: one executeTool call, with or        *)
(* without a readline interface.                                           *)
(***************************************************************************)
InitTool ==
  /\ conversationHistory = <<SystemMessage>>
  /\ CFG = [tools |-> TRUE, stream |-> FALSE]
  /\ variant = "index.js"
  /\ rl \in {None, Some("readline")}
  /\ turn = [pc |-> "caller"]
  /\ calls = <<>>
  /\ observed = [invoked |-> FALSE, outcome |-> None, commands |-> <<>>]
  /\ body = <<>>
  /\ pos = 0
  /\ split = FALSE
  /\ stream = StreamStart
  /\ resolved = None

\* executeTool(tc.function.name, toolArgs) is called
Invoke(tc) ==
  /\ turn.pc = "caller"
  /\ ~observed.invoked
  /\ calls' = <<executeTool(1, tc, ParseArguments(tc.function.arguments))>>
  /\ observed' = [observed EXCEPT !.invoked = TRUE]
  /\ UNCHANGED <<conversationHistory, CFG, variant, rl, turn>>
  /\ UNCHANGED streamVars

\* the promise of executeTool settles
Settled ==
  /\ turn.pc = "caller"
  /\ calls # <<>>
  /\ calls[1].pc \in {"returned", "thrown"}
  /\ observed' = [observed EXCEPT !.outcome = Some(calls[1])]
  /\ calls' = <<>>
  /\ UNCHANGED <<conversationHistory, CFG, variant, rl, turn>>
  /\ UNCHANGED streamVars

NextTool ==
  \/ \E tc \in ToolCalls : Invoke(tc)
  \/ \E typed \in DOMAIN Typed : PromptAnswered(1, typed)
  \/ \E ok \in BOOLEAN : HandlerSettled(1, ok)
  \/ \E ok \in BOOLEAN : CommandSettled(1, ok)
  \/ Settled

SpecTool == InitTool /\ [][NextTool]_vars

(***************************************************************************)
(* C6.  Approval deny-by-default: run_with_approval reaches                *)
(* dispatchCommand only after promptUser answered y, yes or the Hangul yo  *)
(* for that call; without a readline interface promptUser answers n,       *)
(* dispatchCommand is not invoked and the result is denied.                *)
(***************************************************************************)

ApprovalDenyByDefault ==
  LET ApprovalFrames ==
        { f \in Range(calls) \cup Range(observed.outcome) :
            f.toolName = "run_with_approval" }
  IN
  \A f \in ApprovalFrames :
    /\ f.dispatched => f.answer \in {Some("y"), Some("yes"), Some("U+315B")}
    /\ (rl = None /\ f.pc # "thrown")
         => /\ f.answer \in {None, Some("n")}
            /\ ~f.dispatched
            /\ observed.commands = <<>>
            /\ f.pc = "returned" => f.result = Some(Denied)

\* no readline interface: the call has returned denied
ApprovalDenyByDefaultWitness ==
  /\ rl = None
  /\ observed.outcome # None
  /\ observed.outcome[1].toolName = "run_with_approval"
  /\ observed.outcome[1].args.command = Some("ls")
  /\ observed.outcome[1].answer = Some("n")
  /\ observed.outcome[1].result = Some(Denied)
  /\ conversationHistory = <<SystemMessage>>

(***************************************************************************)
(* What the Transport can answer in one round.  A response that asks for   *)
(* tools is only given while the turn has rounds left.                     *)
(***************************************************************************)
ToolCallLists ==
  { <<ReadCall>>, <<ApprovalRead>>, <<NullCall>>, <<ReadCall, BashCall>> }

\* res of zaiChat: res.choices?.[0]?.message
SyncResponses(round) ==
  { [message |-> None],
    [message |-> Some([content |-> Some("hi"), tool_calls |-> None])],
    [message |-> Some([content |-> None, tool_calls |-> None])] }
  \cup
  { [message |-> Some([content |-> None, tool_calls |-> Some(tcs)])] :
      tcs \in IF round < MaxRounds THEN ToolCallLists \cup {<<>>} ELSE {} }

\* what httpStream resolves with: toolCalls is null or a non-empty list
StreamResults(round) ==
  { [content |-> "hi", toolCalls |-> None],
    [content |-> "", toolCalls |-> None] }
  \cup
  { [content |-> "", toolCalls |-> Some(tcs)] :
      tcs \in IF round < MaxRounds THEN ToolCallLists ELSE {} }

(***************************************************************************)
(* sendMessage, sendMessageSync, sendMessageStream.                        *)
(***************************************************************************)
\* the log after main() has pushed the system prompt, or after one
\* earlier plain turn
StartLogs ==
  { <<SystemMessage>>,
    <<SystemMessage, UserMessage("earlier"),
      Message("assistant", Some("hi"), None, None)>> }

Init ==
  /\ conversationHistory \in StartLogs
  /\ CFG \in [tools : BOOLEAN, stream : BOOLEAN]
  /\ variant \in {"index.js", "part_000"}
  /\ rl = Some("readline")
  /\ turn = Idle
  /\ calls = <<>>
  /\ observed = [turns |-> 0, before |-> <<>>, request |-> <<>>,
                 requests |-> 0, responses |-> <<>>, dispatches |-> 0,
                 failedRound |-> 0, threw |-> FALSE, returned |-> None,
                 commands |-> <<>>]
  /\ body = <<>>
  /\ pos = 0
  /\ split = FALSE
  /\ stream = StreamStart
  /\ resolved = None

DispatchedAllAtOnce(tcs, at) ==
  IF at = 1
  THEN [j \in 1..Len(tcs) |->
          executeTool(j, tcs[j], ParseArguments(tcs[j].function.arguments))]
  ELSE <<>>

\* for (const tc of tool_calls) { ... await executeTool(tc.function.name, toolArgs) ... }:
\* the calls started when the loop reaches position at
Dispatched(tcs, at) ==
  <<executeTool(at, tcs[at], ParseArguments(tcs[at].function.arguments))>>

\* the tool loop from position at + 1 on: the next dispatch, or, after the
\* last tool call, the next request
LoopFrom(log, tcs, at, rest, obs) ==
  /\ conversationHistory' = log
  /\ IF at < Len(tcs)
     THEN /\ turn' = [turn EXCEPT !.pc = "tool", !.tool_calls = tcs,
                                  !.at = at + 1]
          /\ calls' = rest \o Dispatched(tcs, at + 1)
          /\ observed' = [obs EXCEPT !.dispatches = @ + 1]
     ELSE /\ turn' = [turn EXCEPT !.pc = "chat", !.round = @ + 1,
                                  !.tool_calls = <<>>, !.at = 0]
          /\ calls' = rest
          /\ observed' = [obs EXCEPT !.request = log, !.requests = @ + 1]

\* return from sendMessage
Return(log, value, obs) ==
  /\ conversationHistory' = log
  /\ turn' = Idle
  /\ calls' = calls
  /\ observed' = [obs EXCEPT !.returned = Some(value)]

RollbackNothing(log) == log

\* conversationHistory.pop() in the catch block of sendMessage
Rollback(log) == Pop(log)

\* catch (error) { ...; conversationHistory.pop(); ...; return null; }
Catch(obs) == Return(Rollback(conversationHistory), None, obs)

\* conversationHistory.push({ role: 'assistant', content }); return content
Finish(content, value, obs) ==
  Return(Append(conversationHistory,
                Message("assistant", Some(content), None, None)),
         Some(value), obs)

\* sendMessage up to the first await of sendMessageSync or sendMessageStream
SendMessage(userMessage) ==
  /\ turn.pc = "idle"
  /\ observed.turns = 0
  /\ conversationHistory' = Append(conversationHistory, UserMessage(userMessage))
  /\ turn' = [pc |-> "chat", stream |-> CFG.stream, round |-> 1,
              tool_calls |-> <<>>, at |-> 0]
  /\ observed' = [observed EXCEPT
                    !.turns = @ + 1,
                    !.before = conversationHistory,
                    !.request = conversationHistory',
                    !.requests = 1]
  /\ UNCHANGED <<CFG, variant, rl, calls>>
  /\ UNCHANGED streamVars

\* sendMessageSync: zaiChat resolved with res
ChatResolved(res) ==
  /\ turn.pc = "chat"
  /\ ~turn.stream
  /\ res \in SyncResponses(turn.round)
  /\ LET obs == [observed EXCEPT !.responses = Append(@, res)]
     IN  IF res.message = None
         THEN IF turn.round = 1
              \* if (!msg) throw new Error(...)
              THEN Catch([obs EXCEPT !.failedRound = turn.round])
              \* if (!msg) break;
              ELSE Finish("", "", obs)
         ELSE LET msg == res.message[1]
              IN  IF CFG.tools /\ msg.tool_calls # None
                  THEN LoopFrom(
                         Append(conversationHistory,
                                Message("assistant", msg.content,
                                        msg.tool_calls, None)),
                         msg.tool_calls[1], 0, calls, obs)
                  ELSE LET content == IF msg.content = None THEN ""
                                      ELSE msg.content[1]
                       IN  Finish(content, content, obs)
  /\ UNCHANGED <<CFG, variant, rl>>
  /\ UNCHANGED streamVars

ToolRoundIgnoringCFG(round, result) ==
  round = 1 /\ result.toolCalls # None

\* index.js: `if (result.toolCalls && CFG.tools)` on the first result only
ToolRoundIndexJs(round, result) ==
  round = 1 /\ result.toolCalls # None /\ CFG.tools

\* part_000: `while (current.toolCalls && CFG.tools)`
ToolRoundPart000(round, result) ==
  result.toolCalls # None /\ CFG.tools

\* sendMessageStream after `await zaiChatStream(...)` yielded result
StreamContinue(result) ==
  /\ turn.pc = "chat"
  /\ turn.stream
  /\ LET obs == [observed EXCEPT !.responses = Append(@, result)]
         again == IF variant = "index.js"
                  THEN ToolRoundIndexJs(turn.round, result)
                  ELSE ToolRoundPart000(turn.round, result)
     IN  IF again
         THEN LoopFrom(
                Append(conversationHistory,
                       Message("assistant",
                               IF result.content # ""
                               THEN Some(result.content) ELSE None,
                               result.toolCalls, None)),
                result.toolCalls[1], 0, calls, obs)
         ELSE Finish(result.content, result.content, obs)
  /\ UNCHANGED <<CFG, variant, rl>>
  /\ UNCHANGED streamVars

\* sendMessageStream: zaiChatStream resolved with result
StreamResolved(result) ==
  /\ turn.pc = "chat"
  /\ result \in StreamResults(turn.round)
  /\ StreamContinue(result)

\* the request fails: network error, timeout or status >= 400
ChatRejected ==
  /\ turn.pc = "chat"
  /\ Catch([observed EXCEPT !.failedRound = turn.round])
  /\ UNCHANGED <<CFG, variant, rl>>
  /\ UNCHANGED streamVars

\* the awaited executeTool returned: push the tool message, go on
ToolReturned ==
  /\ turn.pc = "tool"
  /\ \E j \in DOMAIN calls :
       /\ calls[j].at = turn.at
       /\ calls[j].pc = "returned"
       /\ LoopFrom(
            Append(conversationHistory,
                   Message("tool", Some(JSONStringify(calls[j].result[1])),
                           None, Some(calls[j].id))),
            turn.tool_calls, turn.at,
            SelectSeq(calls, LAMBDA f : f.at # turn.at), observed)
  /\ UNCHANGED <<CFG, variant, rl>>
  /\ UNCHANGED streamVars

\* the awaited executeTool threw: the catch block of sendMessage runs
ToolThrew ==
  /\ turn.pc = "tool"
  /\ \E j \in DOMAIN calls :
       /\ calls[j].at = turn.at
       /\ calls[j].pc = "thrown"
  /\ Catch([observed EXCEPT !.threw = TRUE])
  /\ UNCHANGED <<CFG, variant, rl>>
  /\ UNCHANGED streamVars

Next ==
  \/ SendMessage("hello")
  \/ \E res \in SyncResponses(1) : ChatResolved(res)
  \/ \E result \in StreamResults(1) : StreamResolved(result)
  \/ ChatRejected
  \/ \E j \in 1..2, typed \in {"y", "n"} : PromptAnswered(j, typed)
  \/ \E j \in 1..2, ok \in BOOLEAN : HandlerSettled(j, ok)
  \/ \E j \in 1..2, ok \in BOOLEAN : CommandSettled(j, ok)
  \/ ToolReturned
  \/ ToolThrew

Spec == Init /\ [][Next]_vars

(***************************************************************************)
(* What a turn left in the log, for the claims about sendMessage.          *)
(***************************************************************************)
TurnReturned == turn.pc = "idle" /\ observed.returned # None

\* the messages appended after the user message of the turn
Appended ==
  SubSeq(conversationHistory, Len(observed.before) + 2,
         Len(conversationHistory))

CountRole(log, role) == Cardinality({ j \in DOMAIN log : log[j].role = role })

\* the tool calls a response carries: none when the field is absent
ToolCallsOf(response) ==
  IF "toolCalls" \in DOMAIN response
  THEN response.toolCalls
  ELSE IF response.message = None THEN None
       ELSE response.message[1].tool_calls

HasMessage(response) ==
  "toolCalls" \in DOMAIN response \/ response.message # None

ContentOf(response) ==
  IF "toolCalls" \in DOMAIN response
  THEN response.content
  ELSE IF response.message[1].content = None THEN ""
       ELSE response.message[1].content[1]

(***************************************************************************)
(* C2.  Tool-loop termination: with tools enabled, when the Transport      *)
(* answers with one tool call on each of rounds 1..n and plain content on  *)
(* round n+1 (and every tool returns), the turn issues n+1 requests,       *)
(* makes n dispatches, appends n+1 assistant and n tool messages and       *)
(* returns the content of round n+1, in both modes.                        *)
(***************************************************************************)
ToolLoopTermination ==
  LET IsPlain(response) == HasMessage(response) /\ ToolCallsOf(response) = None
      HasOneToolCall(response) ==
        /\ HasMessage(response)
        /\ ToolCallsOf(response) # None
        /\ Len(ToolCallsOf(response)[1]) = 1
      \* the responses so far follow the script: one tool call per round, then
      \* possibly the plain answer
      Scripted(responses) ==
        /\ responses # <<>>
        /\ \A k \in 1..(Len(responses) - 1) : HasOneToolCall(responses[k])
        /\ HasOneToolCall(Last(responses)) \/ IsPlain(Last(responses))
  IN
  (/\ TurnReturned
   /\ CFG.tools
   /\ observed.failedRound = 0
   /\ ~observed.threw
   /\ Scripted(observed.responses))
  => LET n == Len(observed.responses) - 1
     IN  /\ IsPlain(Last(observed.responses))
         /\ observed.requests = n + 1
         /\ observed.dispatches = n
         /\ CountRole(Appended, "assistant") = n + 1
         /\ CountRole(Appended, "tool") = n
         /\ observed.returned =
              Some(Some(ContentOf(Last(observed.responses))))

(***************************************************************************)
(* C3.  Rollback on first-round Transport failure: when the first request  *)
(* of a turn fails, sendMessage returns null and the log is the log from   *)
(* before the user message was appended.                                   *)
(***************************************************************************)
RollbackOnFirstRoundFailure ==
  (TurnReturned /\ observed.failedRound = 1)
  => /\ conversationHistory = observed.before
     /\ observed.returned = Some(None)

\* a streaming turn on a log with an earlier exchange failed in round 1
RollbackOnFirstRoundFailureWitness ==
  /\ TurnReturned
  /\ observed.failedRound = 1
  /\ observed.requests = 1
  /\ Len(observed.before) = 3
  /\ CFG.stream

(***************************************************************************)
(* C4.  Message-log invariant: whenever a request is sent or a turn has    *)
(* returned, every tool message answers a tool call of the nearest         *)
(* assistant message before it, with only tool messages in between.        *)
(***************************************************************************)

MessageLogInvariant ==
  LET AnswersPrecedingAssistant(log, m) ==
        \E a \in 1..(m - 1) :
          /\ log[a].role = "assistant"
          /\ \A between \in (a + 1)..(m - 1) : log[between].role = "tool"
          /\ log[a].tool_calls # None
          /\ \E tc \in Range(log[a].tool_calls[1]) :
               Some(tc.id) = log[m].tool_call_id
  IN
  (turn.pc = "chat" \/ TurnReturned)
  => \A m \in DOMAIN conversationHistory :
       conversationHistory[m].role = "tool"
         => AnswersPrecedingAssistant(conversationHistory, m)

(***************************************************************************)
(* C5.  Tool ordering: within a round the dispatch of a tool call starts   *)
(* only when every earlier call of the round has returned and its tool     *)
(* message is in the log; at most one dispatch is in progress; the tool    *)
(* messages follow the order of the tool_calls array.                      *)
(***************************************************************************)

NoPartialStateAfterFailure ==
  (/\ TurnReturned
   /\ observed.failedRound >= 1
   /\ observed.failedRound >= 2 => observed.dispatches >= 1)
  => conversationHistory =
       IF observed.failedRound = 1 THEN observed.before ELSE observed.request

(***************************************************************************)
(* The REPL of main(): rl.on('line', async (line) => ...).  The handlers   *)
(* of two lines are independent async calls: a line read while an earlier  *)
(* handler awaits starts its own handler.  In SpecRepl `turn` holds the    *)
(* frames of the sendMessage calls in progress, one per pending line, and  *)
(* the Transport answers every request with plain content or fails.        *)
(***************************************************************************)
MaxInputs == 3

\* the log of a completed turn that used one tool
ToolTurnLog ==
  <<SystemMessage, UserMessage("earlier"),
    Message("assistant", None, Some(<<ReadCall>>), None),
    Message("tool", Some(JSONStringify(Success)), None, Some(ReadCall.id)),
    Message("assistant", Some("hi"), None, None)>>

RECURSIVE PopLoop(_, _)
\* while (conversationHistory.length > 1 && removed < 2) { ... pop(); removed++; }
PopLoop(log, removed) ==
  IF Len(log) > 1 /\ removed < 2 /\ Last(log).role # "system"
  THEN PopLoop(Pop(log), removed + 1)
  ELSE log

\* cmdPop
cmdPop(log) == IF Len(log) <= 1 THEN log ELSE PopLoop(log, 0)

\* the lines a user may enter: a message for the model, or /pop
Inputs == {"hello", "again", "/pop"}

InitRepl ==
  /\ conversationHistory \in StartLogs \cup {ToolTurnLog}
  /\ CFG \in [tools : {TRUE}, stream : BOOLEAN]
  /\ variant \in {"index.js", "part_000"}
  /\ rl = Some("readline")
  /\ turn = <<>>
  /\ calls = <<>>
  /\ observed = [lines |-> 0,
                 owners |-> [j \in DOMAIN conversationHistory |-> 0]]
  /\ body = <<>>
  /\ pos = 0
  /\ split = FALSE
  /\ stream = StreamStart
  /\ resolved = None

\* 'line' with a message: sendMessage(input) up to its first await
LineMessage(input) ==
  /\ observed.lines < MaxInputs
  /\ input \in Inputs \ {"/pop"}
  /\ conversationHistory' = Append(conversationHistory, UserMessage(input))
  /\ turn' = Append(turn, [id |-> observed.lines + 1, pc |-> "chat"])
  /\ observed' = [observed EXCEPT !.lines = @ + 1,
                                  !.owners = Append(@, observed.lines + 1)]
  /\ UNCHANGED <<CFG, variant, rl, calls>>
  /\ UNCHANGED streamVars

\* 'line' with /pop: handleSlashCommand runs cmdPop at once
LinePop ==
  /\ observed.lines < MaxInputs
  /\ conversationHistory' = cmdPop(conversationHistory)
  /\ observed' = [observed EXCEPT
                    !.lines = @ + 1,
                    !.owners = SubSeq(@, 1, Len(conversationHistory'))]
  /\ UNCHANGED <<CFG, variant, rl, turn, calls>>
  /\ UNCHANGED streamVars

Without(frames, h) ==
  SubSeq(frames, 1, h - 1) \o SubSeq(frames, h + 1, Len(frames))

\* the request of pending handler h resolves with plain content
ReplResolved(h, content) ==
  /\ h \in DOMAIN turn
  /\ conversationHistory' =
       Append(conversationHistory,
              Message("assistant", Some(content), None, None))
  /\ observed' = [observed EXCEPT !.owners = Append(@, turn[h].id)]
  /\ turn' = Without(turn, h)
  /\ UNCHANGED <<CFG, variant, rl, calls>>
  /\ UNCHANGED streamVars

\* the request of pending handler h fails: the catch block of sendMessage
ReplRejected(h) ==
  /\ h \in DOMAIN turn
  /\ conversationHistory' = Rollback(conversationHistory)
  /\ observed' = [observed EXCEPT
                    !.owners = SubSeq(@, 1, Len(conversationHistory'))]
  /\ turn' = Without(turn, h)
  /\ UNCHANGED <<CFG, variant, rl, calls>>
  /\ UNCHANGED streamVars

NextRepl ==
  \/ \E input \in Inputs : LineMessage(input)
  \/ LinePop
  \/ \E h \in 1..MaxInputs, content \in {"hi", ""} : ReplResolved(h, content)
  \/ \E h \in 1..MaxInputs : ReplRejected(h)

SpecRepl == InitRepl /\ [][NextRepl]_vars

(***************************************************************************)
(* C11.  One round in flight: whatever lines the REPL reads, and whenever  *)
(* it reads them, at most one request of the conversation awaits the       *)
(* Transport and the messages of two turns are not interleaved in the log. *)
(***************************************************************************)
OneRoundInFlight ==
  LET \* the requests awaiting the Transport
      InFlight == { h \in DOMAIN turn : turn[h].pc = "chat" }
      \* no message of one turn stands between two messages of another turn
      NotInterleaved(owners) ==
        \A i, j, k \in DOMAIN owners :
          (i < j /\ j < k /\ owners[i] > 0 /\ owners[i] = owners[k])
            => owners[j] = owners[i]
  IN
  /\ Cardinality(InFlight) <= 1
  /\ NotInterleaved(observed.owners)

(***************************************************************************)
(* C14.  /pop removes the last conversation pair: on a log that ends with  *)
(* a completed turn, cmdPop removes the last user message and the          *)
(* assistant message answering it, keeps the system message, and leaves    *)
(* every assistant message with tool_calls followed by its tool messages.  *)
(***************************************************************************)
PopRemovesLastPair ==
  [][LET \* the log ends with a completed turn and no turn is in progress
      CompletedTurn(log) ==
        /\ turn = <<>>
        /\ Len(log) >= 3
        /\ Last(log).role = "assistant"
        /\ Last(log).tool_calls = None
      \* every assistant message with tool_calls is followed by one tool message
      \* per call
      ToolCallsAnswered(log) ==
        \A a \in DOMAIN log :
          (log[a].role = "assistant" /\ log[a].tool_calls # None)
            => \A j \in DOMAIN log[a].tool_calls[1] :
                 /\ a + j <= Len(log)
                 /\ log[a + j].role = "tool"
                 /\ log[a + j].tool_call_id = Some(log[a].tool_calls[1][j].id)
      Removed(log, after) == SubSeq(log, Len(after) + 1, Len(log))
  IN
     (LinePop /\ CompletedTurn(conversationHistory))
       => LET removed == Removed(conversationHistory, conversationHistory')
          IN  /\ conversationHistory' =
                   SubSeq(conversationHistory, 1, Len(conversationHistory'))
              /\ Len(removed) = 2
              /\ removed[1].role = "user"
              /\ removed[2].role = "assistant"
              /\ conversationHistory'[1] = conversationHistory[1]
              /\ ToolCallsAnswered(conversationHistory')]_vars

(***************************************************************************)
(* C12.  Tool failures never escape: whatever the tool name and the        *)
(* arguments string of a tool call, executeTool returns a result and       *)
(* throws nothing, so no turn fails because of a tool.                     *)
(***************************************************************************)
ToolFailuresNeverEscape ==
  /\ \A j \in DOMAIN calls : calls[j].pc # "thrown"
  /\ ~observed.threw

(***************************************************************************)
(* C13.  Streaming and non-streaming modes have the same tool-call loop:   *)
(* a turn that returned without a failure has asked again after exactly    *)
(* the responses after which sendMessageSync asks again, has dispatched    *)
(* the tool calls of exactly those responses, has appended one assistant   *)
(* message per response and one tool message per dispatch, and returns     *)
(* the content of the last response, whatever the mode.                    *)
(***************************************************************************)
StreamingMatchesSync ==
  LET \* while (CFG.tools && msg.tool_calls): sendMessageSync asks again after
      \* this response
      SyncContinues(response) ==
        /\ CFG.tools
        /\ HasMessage(response)
        /\ ToolCallsOf(response) # None
      RECURSIVE SyncDispatches(_)
      \* the tool calls sendMessageSync dispatches for these responses
      SyncDispatches(responses) ==
        IF responses = <<>> THEN 0
        ELSE SyncDispatches(Pop(responses))
               + (IF SyncContinues(Last(responses))
                  THEN Len(ToolCallsOf(Last(responses))[1]) ELSE 0)
  IN
  (TurnReturned /\ observed.failedRound = 0 /\ ~observed.threw)
  => /\ observed.requests = Len(observed.responses)
     /\ \A k \in DOMAIN observed.responses :
          SyncContinues(observed.responses[k]) <=> k < Len(observed.responses)
     /\ observed.dispatches = SyncDispatches(observed.responses)
     /\ CountRole(Appended, "assistant") = Len(observed.responses)
     /\ CountRole(Appended, "tool") = observed.dispatches
     /\ HasMessage(Last(observed.responses))
          => observed.returned =
               Some(Some(ContentOf(Last(observed.responses))))

(***************************************************************************)
(* The Go client: RunREPL of pkg/lightzai/client.go.  In SpecGo the log    *)
(* is the local `history`, CFG is c.cfg and `turn` is the position of the  *)
(* loop: at s.Scan() or inside c.Chat.                                     *)
(***************************************************************************)
GoSystemMessage == Message("system", Some("coding assistant"), None, None)

trimHistoryKeepsOldest(history, max) ==
  IF Len(history) <= max THEN history ELSE SubSeq(history, 1, max)

\* trimHistory(history, max)
trimHistory(history, max) ==
  IF Len(history) <= max
  THEN history
  ELSE <<history[1]>>
         \o SubSeq(history, Len(history) - (max - 1) + 1, Len(history))

\* what s.Text() can be after strings.TrimSpace
GoInputs == {"", "/clear", "hello", "again"}

InitGo ==
  /\ conversationHistory = <<GoSystemMessage>>
  /\ CFG \in [MaxHistory : {4, 6}]
  /\ variant = "client.go"
  /\ rl = None
  /\ turn = [pc |-> "scan"]
  /\ calls = <<>>
  /\ observed = [inputs |-> 0, before |-> <<>>, sent |-> <<>>,
                 failed |-> FALSE]
  /\ body = <<>>
  /\ pos = 0
  /\ split = FALSE
  /\ stream = StreamStart
  /\ resolved = None

\* one pass of the loop from s.Scan() to c.Chat or to `continue`
GoScan(text) ==
  /\ turn.pc = "scan"
  /\ observed.inputs < MaxInputs
  /\ text \in GoInputs
  /\ IF text = ""
     THEN /\ UNCHANGED <<conversationHistory, turn>>
          /\ observed' = [observed EXCEPT !.inputs = @ + 1, !.failed = FALSE]
     ELSE IF text = "/clear"
     THEN /\ conversationHistory' = SubSeq(conversationHistory, 1, 1)
          /\ observed' = [observed EXCEPT !.inputs = @ + 1, !.failed = FALSE]
          /\ UNCHANGED turn
     ELSE /\ conversationHistory' =
               trimHistory(Append(conversationHistory, UserMessage(text)),
                           CFG.MaxHistory)
          /\ turn' = [pc |-> "chat"]
          /\ observed' = [observed EXCEPT
                            !.inputs = @ + 1,
                            !.failed = FALSE,
                            !.before = conversationHistory,
                            !.sent = conversationHistory']
  /\ UNCHANGED <<CFG, variant, rl, calls>>
  /\ UNCHANGED streamVars

\* ans, err := c.Chat(ctx, history) with err == nil
GoChatAnswered(ans) ==
  /\ turn.pc = "chat"
  /\ conversationHistory' =
       trimHistory(Append(conversationHistory,
                          Message("assistant", Some(ans), None, None)),
                   CFG.MaxHistory)
  /\ turn' = [pc |-> "scan"]
  /\ UNCHANGED <<CFG, variant, rl, calls, observed>>
  /\ UNCHANGED streamVars

\* err != nil: the error is printed, then `continue`
GoChatFailed ==
  /\ turn.pc = "chat"
  /\ turn' = [pc |-> "scan"]
  /\ observed' = [observed EXCEPT !.failed = TRUE]
  /\ UNCHANGED <<conversationHistory, CFG, variant, rl, calls>>
  /\ UNCHANGED streamVars

NextGo ==
  \/ \E text \in GoInputs : GoScan(text)
  \/ \E ans \in {"hi", ""} : GoChatAnswered(ans)
  \/ GoChatFailed

SpecGo == InitGo /\ [][NextGo]_vars

(***************************************************************************)
(* C15.  Go REPL failed round: after Client.Chat returned an error for an  *)
(* input, the history is the history from before that user message was     *)
(* appended.                                                               *)
(***************************************************************************)
GoFailedRoundRollsBack ==
  (turn.pc = "scan" /\ observed.failed)
  => conversationHistory = observed.before

(***************************************************************************)
(* C16.  Complete tool results before the next request: when the request   *)
(* that follows a round with tool calls is sent, the log ends with the     *)
(* assistant message carrying those tool calls followed by one tool        *)
(* message per call, in array order, and nothing else.                     *)
(***************************************************************************)
CompleteToolResults ==
  (turn.pc = "chat" /\ turn.round >= 2)
  => LET tcs == ToolCallsOf(Last(observed.responses))[1]
         log == conversationHistory
         a   == Len(log) - Len(tcs)
     IN  /\ a >= 1
         /\ log[a].role = "assistant"
         /\ log[a].tool_calls = Some(tcs)
         /\ \A j \in DOMAIN tcs :
              /\ log[a + j].role = "tool"
              /\ log[a + j].tool_call_id = Some(tcs[j].id)

(***************************************************************************)
(* C17.  The loop asks again only for a non-null, non-empty tool-call      *)
(* list: a response whose tool-call list is absent, null or empty ends     *)
(* the turn: no further request, no dispatch, one assistant message with   *)
(* the content of the response, in both modes.                             *)
(***************************************************************************)
LoopOnlyForToolCalls ==
  LET \* the tool-call list of the response is absent, null or empty
      NoToolCalls(response) ==
        /\ HasMessage(response)
        /\ ToolCallsOf(response) \in {None, Some(<<>>)}
  IN
  \A k \in DOMAIN observed.responses :
    NoToolCalls(observed.responses[k])
      => /\ observed.requests = k
         /\ TurnReturned
         /\ Last(conversationHistory) =
              Message("assistant", Some(ContentOf(observed.responses[k])),
                      None, None)

(***************************************************************************)
(* C18.  The Bridge never mutates the message log: from the start to the   *)
(* end of an executeTool call the log is the log the caller had.           *)
(***************************************************************************)
BridgeNeverMutatesLog == conversationHistory = <<SystemMessage>>

(***************************************************************************)
(* The Transport delivers Buffers: res.on('data', (chunk) => { buffer +=   *)
(* chunk.toString(); ... }).  In SpecBytes the body is a sequence of       *)
(* bytes; an ASCII byte is written as its character, and "C3" "A9" are     *)
(* the two bytes of the UTF-8 encoding of U+00E9.                          *)
(***************************************************************************)
RECURSIVE Utf8Decode(_)
\* Buffer.prototype.toString('utf8'): a lead byte without its continuation
\* byte, and a continuation byte without its lead byte, become U+FFFD
Utf8Decode(bytes) ==
  IF bytes = <<>> THEN <<>>
  ELSE IF Head(bytes) = "C3"
       THEN IF Len(bytes) >= 2 /\ bytes[2] = "A9"
            THEN <<"U+00E9">> \o Utf8Decode(SubSeq(bytes, 3, Len(bytes)))
            ELSE <<"U+FFFD">> \o Utf8Decode(Tail(bytes))
       ELSE IF Head(bytes) = "A9"
            THEN <<"U+FFFD">> \o Utf8Decode(Tail(bytes))
            ELSE <<Head(bytes)>> \o Utf8Decode(Tail(bytes))

InitBytes ==
  LET ByteBodies ==
        LET       ByteLines ==
              { DataPrefix \o <<"{", "C3", "A9", "}">>,
                DataPrefix \o <<" ", "{", "C3", "A9", "C3", "A9", "}">>,
                DataLine("a") }
        IN
        { Join(ls) : ls \in SeqsUpTo(ByteLines, MaxLines) }
  IN
  /\ body \in ByteBodies
  /\ pos = 0
  /\ split = FALSE
  /\ stream = StreamStart
  /\ resolved = None
  /\ NoTurnYet

\* res.on('data'): the next n bytes arrive as one Buffer
OnDataBuffer(n) ==
  /\ resolved = None
  /\ pos + n <= Len(body)
  /\ stream' = OnDataHandler(stream, Utf8Decode(SubSeq(body, pos + 1, pos + n)))
  /\ pos' = pos + n
  /\ split' = (split \/ (pos' < Len(body) /\ body[pos'] = "C3"))
  /\ UNCHANGED <<body, resolved>>
  /\ UNCHANGED turnVars

NextBytes ==
  \/ \E n \in 1..MaxChunk : OnDataBuffer(n)
  \/ OnEnd

SpecBytes == InitBytes /\ [][NextBytes]_vars

(***************************************************************************)
(* C20.  Byte chunks are reassembled before decoding: whatever the chunk   *)
(* boundaries, also inside a multi-byte character, the result is the       *)
(* result of the unsplit stream.                                           *)
(***************************************************************************)
ByteChunkingInvariance ==
  resolved # None => resolved[1] = SingleChunkResult(Utf8Decode(body))

(***************************************************************************)
(* A streaming turn with its first response stream in detail: the chunks   *)
(* arrive while sendMessageStream awaits, the callbacks are invoked as     *)
(* frames are decoded, and the stream either ends ('end' resolves the      *)
(* promise) or fails before its end (req 'timeout' or 'error' rejects      *)
(* the promise).  A response destroyed without any event leaves the        *)
(* promise pending: the behaviour then stops before StreamEnded.  Later    *)
(* rounds resolve or fail in one step.                                     *)
(***************************************************************************)

InitAbort ==
  LET AbortBodies ==
        LET       AbortLines == { DataLine(l) : l \in {"a", "i", "x", "j"} }
        IN
        { Join(ls) : ls \in SeqsUpTo(AbortLines, MaxLines) }
  IN
  /\ conversationHistory = <<SystemMessage>>
  /\ CFG \in [tools : BOOLEAN, stream : {TRUE}]
  /\ variant \in {"index.js", "part_000"}
  /\ rl = Some("readline")
  /\ turn = Idle
  /\ calls = <<>>
  /\ observed = [turns |-> 0, before |-> <<>>, request |-> <<>>,
                 requests |-> 0, responses |-> <<>>, dispatches |-> 0,
                 failedRound |-> 0, threw |-> FALSE, returned |-> None,
                 commands |-> <<>>]
  /\ body \in AbortBodies
  /\ pos = 0
  /\ split = FALSE
  /\ stream = StreamStart
  /\ resolved = None

FirstStream == turn.pc = "chat" /\ turn.round = 1

\* res.on('data') while sendMessageStream awaits the first stream
Receive(n) == FirstStream /\ OnData(n)

\* res.on('end') of the first stream
StreamEnded == FirstStream /\ OnEnd

ResolutionPartial == Some(Result(stream))

\* what `await zaiChatStream(...)` yields: nothing while the promise is
\* pending
Resolution == resolved

\* sendMessageStream resumes after the first await
Resume ==
  /\ FirstStream
  /\ Resolution # None
  /\ StreamContinue(Resolution[1])

\* req.on('timeout') / req.on('error') before the end of the first stream:
\* reject, the catch block of sendMessage runs
StreamFailed ==
  /\ FirstStream
  /\ resolved = None
  /\ ChatRejected

\* the requests of later rounds
LaterResolved(result) == turn.pc = "chat" /\ turn.round >= 2 /\ StreamResolved(result)

LaterRejected == turn.pc = "chat" /\ turn.round >= 2 /\ ChatRejected

NextAbort ==
  \/ SendMessage("hello")
  \/ \E n \in 1..MaxChunk : Receive(n)
  \/ StreamEnded
  \/ Resume
  \/ StreamFailed
  \/ \E result \in StreamResults(1) : LaterResolved(result)
  \/ LaterRejected
  \/ \E j \in 1..2, typed \in {"y", "n"} : PromptAnswered(j, typed)
  \/ \E j \in 1..2, ok \in BOOLEAN : HandlerSettled(j, ok)
  \/ \E j \in 1..2, ok \in BOOLEAN : CommandSettled(j, ok)
  \/ ToolReturned
  \/ ToolThrew

SpecAbort == InitAbort /\ [][NextAbort]_vars

(***************************************************************************)
(* C19.  No commit of a partial stream: as long as the first stream of a   *)
(* turn has not ended normally, also after it failed with frames already   *)
(* delivered to the callbacks, no assistant message and no tool message    *)
(* is in the log after the user message and no tool has been dispatched.   *)
(***************************************************************************)
NoPartialCommit ==
  (observed.turns = 1 /\ resolved = None)
  => /\ CountRole(Appended, "assistant") = 0
     /\ CountRole(Appended, "tool") = 0
     /\ observed.dispatches = 0
     /\ calls = <<>>

\* the stream failed after a content token and a tool-call fragment had
\* been delivered
NoPartialCommitWitness ==
  /\ TurnReturned
  /\ observed.failedRound = 1
  /\ resolved = None
  /\ stream.onToken # <<>>
  /\ DOMAIN stream.toolCalls # {}
  /\ conversationHistory = <<SystemMessage>>


(***************************************************************************)
(* MCP tool names: getMcpFunctionTools builds the function name the model  *)
(* is given, executeTool takes it apart again.                             *)
(***************************************************************************)
MaxName == 3

NamesOver(alphabet) == UNION { [1..m -> alphabet] : m \in 1..MaxName }

McpPrefix == <<"m", "c", "p", "_", "_">>

\* `mcp__${serverName}__${tool.name}`
McpFunctionName(serverName, toolName) ==
  McpPrefix \o serverName \o <<"_", "_">> \o toolName

RECURSIVE NameRun(_)
\* how many characters [^_]+ takes at the start of the text
NameRun(text) ==
  IF text = <<>> \/ Head(text) = "_" THEN 0 ELSE 1 + NameRun(Tail(text))

\* toolName.match(/^mcp__([^_]+)__(.+)$/): the two groups, or None
McpMatch(toolName) ==
  IF ~StartsWith(toolName, McpPrefix)
  THEN None
  ELSE LET rest == Slice(toolName, Len(McpPrefix))
           n    == NameRun(rest)
       IN  IF /\ n >= 1
              /\ Len(rest) >= n + 3
              /\ rest[n + 1] = "_"
              /\ rest[n + 2] = "_"
           THEN Some([serverName |-> SubSeq(rest, 1, n),
                      mcpToolName |-> Slice(rest, n + 2)])
           ELSE None

\* one connected server with one tool
InitNames ==
  LET \* keys of mcpServers
      ServerNames == NamesOver({"s", "_"})
      \* tool.name in a server's tools/list answer
      ToolNames == NamesOver({"t", "_"})
  IN
  /\ observed \in [serverName : ServerNames, tool : ToolNames]
  /\ turn = [pc |-> "connected"]
  /\ body = <<>>
  /\ calls = <<>>
  /\ pos = 0
  /\ split = FALSE
  /\ stream = StreamStart
  /\ resolved = None
  /\ conversationHistory = <<>>
  /\ CFG = [tools |-> TRUE, stream |-> TRUE]
  /\ variant = "part_000"
  /\ rl = None

\* getMcpFunctionTools(): the name given to the model
Advertise ==
  /\ turn.pc = "connected"
  /\ body' = McpFunctionName(observed.serverName, observed.tool)
  /\ turn' = [pc |-> "advertised"]
  /\ UNCHANGED <<pos, split, stream, resolved, conversationHistory, CFG,
                 variant, rl, calls, observed>>

\* executeTool(name, args) with the advertised name
RouteMcpTool ==
  LET \* the default case of executeTool
      McpRoute(toolName) ==
        LET mcpMatch == McpMatch(toolName)
        IN  IF mcpMatch # None
            THEN [fn |-> "mcpCallTool", serverName |-> mcpMatch[1].serverName,
                  toolName |-> mcpMatch[1].mcpToolName]
            ELSE [fn |-> "unknown tool", serverName |-> <<>>, toolName |-> toolName]
  IN
  /\ turn.pc = "advertised"
  /\ calls' = Append(calls, McpRoute(body))
  /\ turn' = [pc |-> "routed"]
  /\ UNCHANGED <<body, pos, split, stream, resolved, conversationHistory, CFG,
                 variant, rl, observed>>

NextNames ==
  \/ Advertise
  \/ RouteMcpTool

SpecNames == InitNames /\ [][NextNames]_vars

(***************************************************************************)
(* C27.  MCP tool names round-trip: the function name advertised for a     *)
(* server and one of its tools is routed by executeTool to mcpCallTool     *)
(* with exactly that server name and that tool name, underscores in        *)
(* either name included.                                                   *)
(***************************************************************************)
McpNamesRoundTrip ==
  turn.pc = "routed" =>
    calls = <<[fn |-> "mcpCallTool", serverName |-> observed.serverName,
               toolName |-> observed.tool]>>


(***************************************************************************)
(* The turn of sendMessage with the /tools command, which the REPL runs    *)
(* whenever its line arrives, a turn in flight or not.                     *)
(***************************************************************************)
\* case 'tools': CFG.tools = !CFG.tools
ToolsCommand ==
  /\ CFG' = [CFG EXCEPT !.tools = ~@]
  /\ UNCHANGED <<conversationHistory, variant, rl, turn, calls, observed>>
  /\ UNCHANGED streamVars

NextToggle ==
  \/ Next
  \/ ToolsCommand

SpecToggle == Init /\ [][NextToggle]_vars

(***************************************************************************)
(* C28.  Tools disabled: a response evaluated while CFG.tools is false     *)
(* ends the turn, whatever tool calls it carries: no tool is dispatched,   *)
(* no further request is sent (one request in all when it is the turn's    *)
(* first response), and the only message the step can append is an         *)
(* assistant message without tool_calls.  The value of CFG.tools that      *)
(* counts is the one at the evaluation.                                    *)
(***************************************************************************)
ToolsDisabled ==
  [][LET \* the step evaluates a response of the model
      Evaluates == Len(observed'.responses) > Len(observed.responses)
  IN
     (Evaluates /\ ~CFG.tools)
       => /\ turn'.pc = "idle"
          /\ calls' = calls
          /\ observed'.dispatches = observed.dispatches
          /\ observed'.requests = observed.requests
          /\ turn.round = 1 => observed'.requests = 1
          /\ \/ conversationHistory' = Pop(conversationHistory)
             \/ /\ Pop(conversationHistory') = conversationHistory
                /\ Last(conversationHistory').role = "assistant"
                /\ Last(conversationHistory').tool_calls = None]_vars

\* a streamed response with tool calls, evaluated with tools off
ToolsDisabledWitness ==
  /\ TurnReturned
  /\ ~CFG.tools
  /\ CFG.stream
  /\ observed.requests = 1
  /\ observed.dispatches = 0
  /\ Len(observed.responses) = 1
  /\ observed.responses[1].toolCalls # None
  /\ Last(conversationHistory).role = "assistant"
  /\ Last(conversationHistory).tool_calls = None


(***************************************************************************)
(* C29.  Go history trimming: the history of RunREPL starts with the       *)
(* system message and is never longer than MaxHistory; and for that        *)
(* history with one more message appended and every max from 4 up,         *)
(* trimHistory returns min(len, max) messages: the same system message     *)
(* first, then the most recent messages of the input in their order.       *)
(***************************************************************************)
GoHistoryTrimmed ==
  LET \* the messages RunREPL appends
      GoAppended ==
        { UserMessage("hello"), Message("assistant", Some("hi"), None, None) }
  IN
  /\ Len(conversationHistory) <= CFG.MaxHistory
  /\ conversationHistory[1] = GoSystemMessage
  /\ \A m \in GoAppended, max \in 4..CFG.MaxHistory :
       LET history == Append(conversationHistory, m)
           trimmed == trimHistory(history, max)
       IN  /\ Len(trimmed) = IF Len(history) <= max THEN Len(history) ELSE max
           /\ trimmed[1] = history[1]
           /\ \A k \in 2..Len(trimmed) :
                trimmed[k] = history[Len(history) - Len(trimmed) + k]

\* the second answer made the history five long with MaxHistory 4: the
\* first user message is gone
GoHistoryTrimmedWitness ==
  /\ CFG.MaxHistory = 4
  /\ turn.pc = "scan"
  /\ observed.inputs = 2
  /\ Len(conversationHistory) = 4
  /\ conversationHistory[2].role = "assistant"
  /\ conversationHistory[4].role = "assistant"


(***************************************************************************)
(* mcpSpawnProcess: the requests of one MCP stdio process.  `calls` holds  *)
(* one record per promise send() returned; `observed` holds the counter    *)
(* of the closure, whether the child has closed, and whether a line came   *)
(* for the id of a request that was no longer pending.                     *)
(***************************************************************************)
MaxRequests == 2

MaxChunkLines == 2

StdoutChunks ==
  LET \* a complete line of the child's stdout: its id (0: no id) and its content
      StdoutLines == [id : 0..MaxRequests, payload : {"p", "q"}]
  IN
  SeqsUpTo(StdoutLines, MaxChunkLines) \ {<<>>}

\* resolve(v) or reject(e) on a promise: only the first call settles it
Settle(request, outcome, cause, value) ==
  IF request.promise = "pending"
  THEN [request EXCEPT !.promise = outcome, !.cause = cause, !.value = value]
  ELSE request

\* pending.has(id)
PendingHas(requests, id) ==
  \E j \in DOMAIN requests : requests[j].id = id /\ requests[j].inMap

\* pending.delete(id)
PendingDelete(requests, id) ==
  [j \in DOMAIN requests |->
     IF requests[j].id = id THEN [requests[j] EXCEPT !.inMap = FALSE]
     ELSE requests[j]]

OnLineKeepingEntry(requests, msg) ==
  IF msg.id # 0 /\ PendingHas(requests, msg.id)
  THEN [j \in DOMAIN requests |->
          IF requests[j].id = msg.id /\ requests[j].inMap
          THEN [requests[j] EXCEPT !.promise = "resolved",
                                   !.cause = "response",
                                   !.value = Some(msg.payload)]
          ELSE requests[j]]
  ELSE requests

\* one line of stdout: if (msg.id !== undefined && pending.has(msg.id))
\* { pending.delete(msg.id); resolve(msg); }
OnLine(requests, msg) ==
  IF msg.id # 0 /\ PendingHas(requests, msg.id)
  THEN [j \in DOMAIN requests |->
          IF requests[j].id = msg.id /\ requests[j].inMap
          THEN Settle([requests[j] EXCEPT !.inMap = FALSE],
                      "resolved", "response", Some(msg.payload))
          ELSE requests[j]]
  ELSE requests

RECURSIVE OnLines(_, _)
\* the while loop of the 'data' handler over the lines of one chunk
OnLines(requests, lines) ==
  IF lines = <<>>
  THEN requests
  ELSE OnLines(OnLine(requests, Head(lines)), Tail(lines))

\* for (const [id, { reject }] of pending) { reject(...); pending.delete(id); }
RejectAll(requests, cause) ==
  [j \in DOMAIN requests |->
     IF requests[j].inMap
     THEN Settle([requests[j] EXCEPT !.inMap = FALSE], "rejected", cause, None)
     ELSE requests[j]]

InitMcp ==
  /\ calls = <<>>
  /\ observed = [nextId |-> 1, closed |-> FALSE, late |-> FALSE]
  /\ turn = [pc |-> "spawned"]
  /\ body = <<>>
  /\ pos = 0
  /\ split = FALSE
  /\ stream = StreamStart
  /\ resolved = None
  /\ conversationHistory = <<>>
  /\ CFG = [tools |-> TRUE, stream |-> TRUE]
  /\ variant = "part_000"
  /\ rl = None

\* send(method, params) up to the return of the promise
Send ==
  /\ Len(calls) < MaxRequests
  /\ LET id == observed.nextId
     IN  /\ calls' = Append(PendingDelete(calls, id),
                            [id |-> id, inMap |-> TRUE, promise |-> "pending",
                             cause |-> "", value |-> None,
                             write |-> "queued", timer |-> TRUE,
                             beforeClose |-> ~observed.closed])
         /\ observed' = [observed EXCEPT !.nextId = id + 1]
  /\ UNCHANGED streamVars
  /\ UNCHANGED <<conversationHistory, CFG, variant, rl, turn>>

\* the callback of child.stdin.write
WriteCallback(j, err) ==
  /\ j \in DOMAIN calls
  /\ calls[j].write = "queued"
  /\ calls' = IF err
              THEN [PendingDelete(calls, calls[j].id) EXCEPT
                      ![j] = Settle([@ EXCEPT !.write = "failed"],
                                    "rejected", "write", None)]
              ELSE [calls EXCEPT ![j].write = "written"]
  /\ UNCHANGED observed
  /\ UNCHANGED streamVars
  /\ UNCHANGED <<conversationHistory, CFG, variant, rl, turn>>

\* the setTimeout callback, 30 seconds after send
Timeout(j) ==
  /\ j \in DOMAIN calls
  /\ calls[j].timer
  /\ calls' = IF PendingHas(calls, calls[j].id)
              THEN [PendingDelete(calls, calls[j].id) EXCEPT
                      ![j] = Settle([@ EXCEPT !.timer = FALSE],
                                    "rejected", "timeout", None)]
              ELSE [calls EXCEPT ![j].timer = FALSE]
  /\ UNCHANGED observed
  /\ UNCHANGED streamVars
  /\ UNCHANGED <<conversationHistory, CFG, variant, rl, turn>>

\* child.stdout.on('data') with a chunk that completes these lines
StdoutData(lines) ==
  LET \* a line carries the id of a request that is no longer pending
      Late(requests, lines0) ==
        \E k \in DOMAIN lines0 :
          \E j \in DOMAIN requests :
            /\ requests[j].id = lines0[k].id
            /\ OnLines(requests, SubSeq(lines0, 1, k - 1))[j].promise # "pending"
  IN
  /\ ~observed.closed
  /\ calls' = OnLines(calls, lines)
  /\ observed' = [observed EXCEPT !.late = @ \/ Late(calls, lines)]
  /\ UNCHANGED streamVars
  /\ UNCHANGED <<conversationHistory, CFG, variant, rl, turn>>

\* child.on('error')
ChildError ==
  /\ ~observed.closed
  /\ calls' = RejectAll(calls, "error")
  /\ UNCHANGED observed
  /\ UNCHANGED streamVars
  /\ UNCHANGED <<conversationHistory, CFG, variant, rl, turn>>

\* child.on('close')
ChildClose ==
  /\ ~observed.closed
  /\ calls' = RejectAll(calls, "close")
  /\ observed' = [observed EXCEPT !.closed = TRUE]
  /\ UNCHANGED streamVars
  /\ UNCHANGED <<conversationHistory, CFG, variant, rl, turn>>

NextMcp ==
  \/ Send
  \/ \E j \in 1..MaxRequests, err \in BOOLEAN : WriteCallback(j, err)
  \/ \E j \in 1..MaxRequests : Timeout(j)
  \/ \E lines \in StdoutChunks : StdoutData(lines)
  \/ ChildError
  \/ ChildClose

\* a timer that was set fires
SpecMcp ==
  /\ InitMcp
  /\ [][NextMcp]_vars
  /\ \A j \in 1..MaxRequests : WF_vars(Timeout(j))

(***************************************************************************)
(* C30.  MCP stdio request matching: every promise send() returned         *)
(* settles, and once: resolved with the first line that carries its id,    *)
(* or rejected by the timeout, a stdin write error, or the error or close  *)
(* of the process; ids are never reused; a line for an id that is not      *)
(* pending settles nothing; once the process has closed, no request sent   *)
(* before is pending.                                                      *)
(***************************************************************************)
McpRequestMatching ==
  \* what holds of the promises at every moment
  /\ [](\A j \in DOMAIN calls :
          LET r == calls[j]
          IN  /\ r.inMap <=> r.promise = "pending"
              /\ r.promise = "resolved"
                   => r.cause = "response" /\ r.value # None
              /\ r.promise = "rejected"
                   => /\ r.cause \in {"timeout", "write", "error", "close"}
                      /\ r.value = None
              /\ r.cause = "write" => r.write = "failed"
              /\ r.cause = "timeout" => ~r.timer
              /\ (observed.closed /\ r.beforeClose) => r.promise # "pending"
              /\ \A i \in DOMAIN calls : i # j => calls[i].id # r.id
              /\ r.id < observed.nextId)
  \* what holds of every step: a settled promise stays as it is, and the
  \* promises a step resolves are those pending for the ids of the lines of
  \* one chunk, each with the first line of its id
  /\ [][LET \* the content of the first line with this id, if there is one
            FirstWithId(lines, id) ==
              IF \E k \in DOMAIN lines : lines[k].id = id
              THEN Some(lines[CHOOSE k \in DOMAIN lines :
                                /\ lines[k].id = id
                                /\ \A h \in 1..(k - 1) : lines[h].id # id].payload)
              ELSE None
        IN  /\ \A j \in DOMAIN calls :
                 calls[j].promise # "pending"
                   => /\ calls'[j].promise = calls[j].promise
                      /\ calls'[j].cause = calls[j].cause
                      /\ calls'[j].value = calls[j].value
            /\ (\E j \in DOMAIN calls :
                  calls[j].promise = "pending" /\ calls'[j].promise = "resolved")
                 => \E lines \in StdoutChunks :
                      \A j \in DOMAIN calls :
                        IF calls[j].promise = "pending"
                             /\ FirstWithId(lines, calls[j].id) # None
                        THEN /\ calls'[j].promise = "resolved"
                             /\ calls'[j].value = FirstWithId(lines, calls[j].id)
                        ELSE calls'[j] = calls[j]]_vars
  \* every request sent settles
  /\ \A j \in 1..MaxRequests :
       (j \in DOMAIN calls)
         ~> (j \in DOMAIN calls /\ calls[j].promise # "pending")

\* the first request timed out, a line with its id came late, and the
\* second request was resolved
McpRequestMatchingWitness ==
  /\ Len(calls) = 2
  /\ calls[1].promise = "rejected"
  /\ calls[1].cause = "timeout"
  /\ calls[2].promise = "resolved"
  /\ calls[2].value = Some("q")
  /\ observed.late

====
